---- MODULE Spec2Model ----
(***************************************************************************)
(* Model of the two statistical components of TCRM:                        *)
(*   StatInterface/KDEOrigin.py  (class KDEOrigin: construction,           *)
(*                                generateKDE, generateCdf)                *)
(*   TrackGenerator/trackSize.py (rmax, fitRmax)                           *)
(*                                                                         *)
(* Numbers.  Coordinates, bandwidths and pressure deficits are integers    *)
(* (multiples of one grid unit).  Floating-point quotients are exact       *)
(* rationals [n, d] in lowest terms with d > 0; a quotient by zero is the  *)
(* non-finite value NaN = [n |-> 0, d |-> 0], which, as in IEEE            *)
(* arithmetic, propagates through sums and compares false with everything. *)
(* Python's None is the empty tuple, a present value v is <<v>>.           *)
(***************************************************************************)
EXTENDS Integers, Sequences, FiniteSets, TLC

VARIABLES
    gridLimit,    \* constructor argument gridLimit (kept to state the grid rule)
    x, y,         \* self.x, self.y
    kdeType,      \* self.kdeType
    kdeStep,      \* self.kdeStep
    lonLat,       \* self.lonLat
    processPath,  \* self.processPath: None when the attribute was never set
    bw,           \* self.bw
    pdf,          \* self.pdf: None while the attribute does not exist
    cz,           \* self.cz:  None while the attribute does not exist
    kdeOk,        \* history: some generateKDE call has returned normally
    coeffsObj,    \* the caller's coefficient list object handed to rmax
    defaultsObj,  \* the list object bound to rmax's default argument
    call          \* the last call: operation, arguments, outcome, return value

vars == <<gridLimit, x, y, kdeType, kdeStep, lonLat, processPath, bw, pdf, cz,
          kdeOk, coeffsObj, defaultsObj, call>>

kdeVars == <<gridLimit, x, y, kdeType, kdeStep, lonLat, processPath, bw, pdf,
             cz, kdeOk>>

rmaxVars == <<coeffsObj, defaultsObj>>

---------------------------------------------------------------------------
(* Bounds of the model *)

MaxExtent == 3       \* grid limits range over -1 .. MaxExtent
MaxStep == 2         \* kdeStep ranges over 1 .. MaxStep
MaxBw == 2           \* bandwidths range up to MaxBw
MaxLevelNum == 40    \* contour inputs: pdfMax = n/d, n in 1 .. MaxLevelNum
MaxDp == 2           \* rmax inputs dp, lat in 0 .. MaxDp
MaxObs == 4          \* fitRmax: number of observations 0 .. MaxObs

---------------------------------------------------------------------------
(* Values *)

None == <<>>
Some(v) == <<v>>

\* a function over 1 .. n as the tuple of its values
Array(f) == f \o <<>>

RECURSIVE GCD(_, _)
GCD(a, b) == IF b = 0 THEN a ELSE GCD(b, a % b)

Abs(a) == IF a < 0 THEN -a ELSE a

NaN == [n |-> 0, d |-> 0]

\* the float a / b
Rat(a, b) ==
    IF b = 0 THEN NaN
    ELSE LET g == GCD(Abs(a), Abs(b))
             s == IF b < 0 THEN -1 ELSE 1
         IN [n |-> s * (a \div g), d |-> s * (b \div g)]

IsNaN(r) == r.d = 0
RatAdd(a, b) == IF IsNaN(a) \/ IsNaN(b) THEN NaN
                ELSE Rat(a.n * b.d + b.n * a.d, a.d * b.d)
RatMul(a, b) == IF IsNaN(a) \/ IsNaN(b) THEN NaN ELSE Rat(a.n * b.n, a.d * b.d)
RatDiv(a, b) == IF IsNaN(a) \/ IsNaN(b) THEN NaN ELSE Rat(a.n * b.d, a.d * b.n)
RatLt(a, b) == ~IsNaN(a) /\ ~IsNaN(b) /\ a.n * b.d < b.n * a.d
RatLe(a, b) == ~IsNaN(a) /\ ~IsNaN(b) /\ a.n * b.d <= b.n * a.d
RatGt(a, b) == RatLt(b, a)
RatEq(a, b) == ~IsNaN(a) /\ ~IsNaN(b) /\ a.n * b.d = b.n * a.d

RECURSIVE SumInt(_)
SumInt(s) == IF s = <<>> THEN 0 ELSE Head(s) + SumInt(Tail(s))

RECURSIVE SumRat(_)
SumRat(s) == IF s = <<>> THEN Rat(0, 1) ELSE RatAdd(Head(s), SumRat(Tail(s)))

\* numpy max of a float array: NaN as soon as one entry is NaN
RECURSIVE MaxRat(_)
MaxRat(s) ==
    IF Len(s) = 1 THEN s[1]
    ELSE LET m == MaxRat(Tail(s))
         IN IF IsNaN(s[1]) \/ IsNaN(m) THEN NaN
            ELSE IF RatLt(m, s[1]) THEN s[1] ELSE m

RECURSIVE Pow10(_)
Pow10(k) == IF k = 0 THEN 1 ELSE 10 * Pow10(k - 1)

RECURSIVE Pow2(_)
Pow2(k) == IF k = 0 THEN 1 ELSE 2 * Pow2(k - 1)

\* ceil(a / b) for b # 0
CeilDiv(a, b) == IF b > 0 THEN -((-a) \div b) ELSE -(a \div (-b))

\* numpy.arange(start, stop, step) on integers: ceil((stop-start)/step) values
arange(start, stop, step) ==
    LET len == CeilDiv(stop - start, step)
    IN Array([i \in 1 .. (IF len > 0 THEN len ELSE 0) |-> start + (i - 1) * step])

---------------------------------------------------------------------------
(* KPDF and Utilities.stats: the routines KDEOrigin calls *)

\* column 0 and 1 of every row: ll[:,0:2]
FirstTwoColumns(table) ==
    Array([r \in 1 .. Len(table) |-> <<table[r][1], table[r][2]>>])

\* KPDF.MPDF2DGrid2Array(x, y, 1): one evaluation point per grid cell, the x
\* index running fastest (the layout generateKDE's reshape relies on)
MPDF2DGrid2Array(xs, ys) ==
    Array([k \in 1 .. (Len(xs) * Len(ys)) |->
        <<xs[((k - 1) % Len(xs)) + 1], ys[((k - 1) \div Len(xs)) + 1]>>])

\* the kernel families KPDF provides as MPDF<name>
KernelNames == {"Gaussian", "Epanechnikov"}

\* weight 1.0 of the fixed-point Gaussian
GaussOne == 8

\* One observation's contribution at one grid point, up to the constant factor
\* that the normalisation in generateKDE cancels.  Epanechnikov is the product
\* kernel with support |u| < 1 in each dimension; Gaussian is evaluated in
\* finite precision (each bandwidth-squared of squared distance halves the
\* weight, and a weight below the smallest representable one underflows to 0).
KernelWeight(name, g, o, h) ==
    LET dx2 == (g[1] - o[1]) * (g[1] - o[1])
        dy2 == (g[2] - o[2]) * (g[2] - o[2])
    IN IF name = "Epanechnikov"
       THEN IF dx2 < h * h /\ dy2 < h * h THEN (h * h - dx2) * (h * h - dy2) ELSE 0
       ELSE LET q == (dx2 + dy2) \div (h * h)
            IN IF q > 3 THEN 0 ELSE GaussOne \div Pow2(q)

\* KPDF.MPDF<name>(data, grid, bw): the kernel-density sum at every grid point
kdeMethod(name, data, grid, h) ==
    Array([k \in 1 .. Len(grid) |->
        SumInt([r \in 1 .. Len(data) |-> KernelWeight(name, grid[k], data[r], h)])])

\* Utilities.stats.cdf2d(x, y, z): cumulative sum of z over both dimensions
cdf2d(xs, ys, z) ==
    LET alongX == Array([i \in 1 .. Len(z) |-> Array([j \in 1 .. Len(z[i]) |->
                      SumRat([a \in 1 .. i |-> z[a][j]])])])
    IN Array([i \in 1 .. Len(z) |-> Array([j \in 1 .. Len(z[i]) |->
           SumRat([b \in 1 .. j |-> alongX[i][b]])])])

---------------------------------------------------------------------------
(* KDEOrigin.__init__ *)

GridLimits ==
    { gl \in [xMin : 0 .. 1, xMax : 1 .. MaxExtent,
              yMin : {-1}, yMax : 0 .. MaxExtent - 1] :
        gl.xMin < gl.xMax /\ gl.yMin < gl.yMax }

KdeSteps == 1 .. MaxStep

\* kdeType as configured: the two kernels of KPDF and a name KPDF lacks
KdeTypes == KernelNames \cup {"Triangular"}

\* observation tables (lon, lat, further columns): origins on and beside the
\* grid, and an origin far outside the domain
ObsTables ==
    { << <<0, 0, 1000>>, <<2, 1, 980>> >>,
      << <<9, -9, 970>> >> }

\* KPDF.MPDFOptimumBandwidth(lonLat) for data whose optimum is positive
OptimumBandwidths == 1 .. MaxBw

\* self.x = arange(gridLimit['xMin'], gridLimit['xMax'], kdeStep)
GridX(gl, step) == arange(gl.xMin, gl.xMax, step)

\* variant: y built like x, ascending from yMin
GridY_Ascending(gl, step) == arange(gl.yMin, gl.yMax, step)

\* self.y = arange(gridLimit['yMax'], gridLimit['yMin'], -kdeStep)
GridY(gl, step) == arange(gl.yMax, gl.yMin, -step)

NoCall == [op |-> "__init__", args |-> None, outcome |-> "ok", ret |-> None,
           saved |-> None]

\* the state after KDEOrigin(configFile, kdeType, gridLimit, kdeStep, lonLat)
InitKDE ==
    \E gl \in GridLimits, step \in KdeSteps, kt \in KdeTypes,
       given \in BOOLEAN, table \in ObsTables, h \in OptimumBandwidths :
        /\ gridLimit = gl
        /\ x = GridX(gl, step)
        /\ y = GridY(gl, step)
        /\ kdeType = kt
        /\ kdeStep = step
        /\ processPath = IF given THEN None ELSE Some("process")
        /\ lonLat = FirstTwoColumns(table)
        /\ bw = h
        /\ pdf = None
        /\ cz = None
        /\ kdeOk = FALSE

---------------------------------------------------------------------------
(* KDEOrigin.generateKDE and generateCdf *)

\* the exceptions the calls end with
InvalidBandwidth == "ValueError: Bandwidth cannot be negative or zero"
UnknownKernel == "AttributeError: KPDF has no such MPDF method"
NoProcessPath == "AttributeError: KDEOrigin has no attribute processPath"
NoPdf == "AttributeError: KDEOrigin has no attribute pdf"
NanToInt == "ValueError: cannot convert float NaN to integer"
InfToInt == "OverflowError: cannot convert float infinity to integer"
NoLevel == "IndexError: index 0 is out of bounds"

\* Python truth value of the argument bw: None and 0 are false
Truthy(arg) == arg # None /\ arg[1] # 0

\* if bw: self.bw = bw
BwAfterOverride(arg, cur) == IF Truthy(arg) THEN arg[1] ELSE cur

\* KDEOrigin._generatePDF(grid, bw)
_generatePDF(grid, h) ==
    IF h <= 0 THEN [exc |-> InvalidBandwidth, val |-> <<>>]
    ELSE IF kdeType \notin KernelNames THEN [exc |-> UnknownKernel, val |-> <<>>]
    ELSE [exc |-> "ok", val |-> kdeMethod(kdeType, lonLat, grid, h)]

\* pdf = pdf / pdf.sum()
Normalise(raw) ==
    LET total == SumInt(raw)
    IN Array([k \in 1 .. Len(raw) |-> Rat(raw[k], total)])

\* pdf.shape = (rows, cols) of a flat array, row-major
Reshape(flat, rows, cols) ==
    Array([j \in 1 .. rows |-> Array([i \in 1 .. cols |-> flat[(j - 1) * cols + i]])])

\* m.transpose() of a 2-D array with at least one row
Transpose(m) ==
    Array([i \in 1 .. Len(m[1]) |-> Array([j \in 1 .. Len(m) |-> m[j][i]])])

\* all cells of a 2-D array as one sequence
RECURSIVE Flatten(_)
Flatten(m) == IF m = <<>> THEN <<>> ELSE Head(m) \o Flatten(Tail(m))

\* int(numpy.floor(numpy.log10(r))) for r > 0
RECURSIVE ExpUp(_, _)
ExpUp(r, e) == IF r.n < r.d * Pow10(e + 1) THEN e ELSE ExpUp(r, e + 1)
RECURSIVE ExpDown(_, _)
ExpDown(r, k) == IF r.n * Pow10(k) >= r.d THEN -k ELSE ExpDown(r, k + 1)
Exponent(r) == IF r.n >= r.d THEN ExpUp(r, 0) ELSE ExpDown(r, 1)

\* 10.0 ** e
TenTo(e) == IF e >= 0 THEN Rat(Pow10(e), 1) ELSE Rat(1, Pow10(-e))

min_lvls == 6
lvls_options == <<Rat(1, 1), Rat(1, 2), Rat(1, 4), Rat(1, 5), Rat(1, 10)>>

\* lvls_options[numpy.where((significand/lvls_options) > min_lvls)[0][0]]:
\* the indices of the options that pass, in list order
PassingOptions(significand) ==
    { k \in 1 .. Len(lvls_options) :
        RatGt(RatDiv(significand, lvls_options[k]), Rat(min_lvls, 1)) }

\* variant: the last passing option of the list instead of the first
LevelStep_LastPassing(significand) ==
    LET ok == PassingOptions(significand)
    IN lvls_options[CHOOSE k \in ok : \A m \in ok : k >= m]

LevelStep(significand) ==
    LET ok == PassingOptions(significand)
    IN lvls_options[CHOOSE k \in ok : \A m \in ok : k <= m]

\* numpy.arange(0, stop, step) on floats
arangeFrom0(stop, step) ==
    LET q == RatDiv(stop, step)
        len == CeilDiv(q.n, q.d)
    IN Array([i \in 1 .. (IF len > 0 THEN len ELSE 0) |-> RatMul(Rat(i - 1, 1), step)])

\* "Automatically determine appropriate contour levels" from pdf.max()
ContourLevels(pdfMax) ==
    IF IsNaN(pdfMax) \/ pdfMax.n < 0 THEN [exc |-> NanToInt]
    ELSE IF pdfMax.n = 0 THEN [exc |-> InfToInt]
    ELSE LET exponent == Exponent(pdfMax)
             significand == RatMul(pdfMax, TenTo(-exponent))
         IN IF PassingOptions(significand) = {} THEN [exc |-> NoLevel]
            ELSE LET lvl_step == LevelStep(significand)
                 IN [exc |-> "ok", exponent |-> exponent,
                     significand |-> significand, lvl_step |-> lvl_step,
                     lvls |-> arangeFrom0(pdfMax, RatMul(lvl_step, TenTo(exponent)))]

\* variant: the grid is stored only on the branch that returns it
PdfAfterKDE_ReturnBranchOnly(save, old, new) == IF save THEN old ELSE Some(new)

\* self.pdf = pdf.transpose(), before the save branch
PdfAfterKDE(save, old, new) == Some(new)

\* generateKDE(bw, save)
generateKDE(bwArg, save) ==
    LET grid2d == MPDF2DGrid2Array(x, y)
        bwNew == BwAfterOverride(bwArg, bw)
        gen == _generatePDF(grid2d, bwNew)
        flat == Normalise(gen.val)
        pdfYX == Reshape(flat, Len(flat) \div Len(x), Len(x))
        pdfXY == Transpose(pdfYX)
        lv == ContourLevels(MaxRat(Flatten(pdfYX)))
        done(outcome, ret, nc, levels) ==
            [op |-> "generateKDE", args |-> [bw |-> bwArg, save |-> save],
             outcome |-> outcome, ret |-> ret,
             saved |-> [grid |-> nc, levels |-> levels]]
    IN /\ bw' = bwNew
       /\ UNCHANGED <<gridLimit, x, y, kdeType, kdeStep, lonLat, processPath, cz>>
       /\ UNCHANGED rmaxVars
       /\ IF gen.exc # "ok"
          THEN /\ pdf' = pdf
               /\ kdeOk' = kdeOk
               /\ call' = done(gen.exc, None, None, None)
          ELSE /\ pdf' = PdfAfterKDE(save, pdf, pdfXY)
               /\ IF ~save
                  THEN /\ call' = done("ok", Some(<<x, y, pdfXY>>), None, None)
                       /\ kdeOk' = TRUE
                  ELSE IF processPath = None
                  THEN /\ call' = done(NoProcessPath, None, None, None)
                       /\ kdeOk' = kdeOk
                  ELSE IF lv.exc # "ok"
                  THEN /\ call' = done(lv.exc, None, Some(pdfYX), None)
                       /\ kdeOk' = kdeOk
                  ELSE /\ call' = done("ok", None, Some(pdfYX), Some(lv.lvls))
                       /\ kdeOk' = TRUE

\* generateCdf(save)
generateCdf(save) ==
    LET new == cdf2d(x, y, pdf[1])
        done(outcome, ret, grd) ==
            [op |-> "generateCdf", args |-> [save |-> save],
             outcome |-> outcome, ret |-> ret,
             saved |-> [grid |-> grd, levels |-> None]]
    IN /\ UNCHANGED <<gridLimit, x, y, kdeType, kdeStep, lonLat, processPath,
                      bw, pdf, kdeOk>>
       /\ UNCHANGED rmaxVars
       /\ IF pdf = None
          THEN /\ cz' = cz
               /\ call' = done(NoPdf, None, None)
          ELSE /\ cz' = Some(new)
               /\ IF ~save THEN call' = done("ok", Some(new), None)
                  ELSE IF processPath = None
                  THEN call' = done(NoProcessPath, None, None)
                  ELSE call' = done("ok", None, Some(new))

---------------------------------------------------------------------------
(* trackSize.rmax and trackSize.fitRmax *)

\* the default coefficients of rmax, in units of 1e-4 (4.4726, -0.0406,
\* 0.0003, 0.0001); eps and ln(Rmw) are in the same units
DefaultCoeffs == <<44726, -406, 3, 1>>

\* a scalar and an array (numpy.ndarray) argument
Scalar(v) == [isArray |-> FALSE, v |-> <<v>>]
NdArray(s) == [isArray |-> TRUE, v |-> s]

\* numpy.exp(v): the value e^v, kept symbolic
Exp(v) == [exp |-> v]

\* numpy broadcasting of dp against lat (lengths agree when both are arrays)
BroadcastLen(dp, lat) == IF dp.isArray THEN Len(dp.v) ELSE Len(lat.v)
At(a, i) == IF a.isArray THEN a.v[i] ELSE a.v[1]

\* variant: a short list is completed with the trailing defaults
rmax_PartialDefaults(dp, lat, eps, coeffsArg, defaults) ==
    LET given == IF coeffsArg = None THEN defaults ELSE coeffsArg[1]
        coeffs == IF Len(given) < 4
                  THEN given \o SubSeq(DefaultCoeffs, Len(given) + 1, 4)
                  ELSE given
        ln(i) == coeffs[1] + coeffs[2] * At(dp, i) + coeffs[3] * At(dp, i) * At(dp, i)
                 + coeffs[4] * At(lat, i) * At(lat, i) + eps
        rm == IF dp.isArray \/ lat.isArray
              THEN NdArray(Array([i \in 1 .. BroadcastLen(dp, lat) |-> Exp(ln(i))]))
              ELSE Scalar(Exp(ln(1)))
    IN IF dp.isArray /\ lat.isArray /\ Len(dp.v) # Len(lat.v)
       THEN [exc |-> "AssertionError", ret |-> None,
             coeffs |-> coeffsArg, defaults |-> defaults]
       ELSE [exc |-> "ok", ret |-> Some(rm),
             coeffs |-> coeffsArg, defaults |-> defaults]

\* rmax(dp, lat, eps, coeffs): coeffsArg is None when the caller omits coeffs;
\* defaults is the list object bound to the default argument.  Gives the
\* outcome, the value returned and both list objects as the call leaves them.
rmax(dp, lat, eps, coeffsArg, defaults) ==
    LET given == IF coeffsArg = None THEN defaults ELSE coeffsArg[1]
        coeffs == IF Len(given) < 4 THEN DefaultCoeffs ELSE given
        ln(i) == coeffs[1] + coeffs[2] * At(dp, i) + coeffs[3] * At(dp, i) * At(dp, i)
                 + coeffs[4] * At(lat, i) * At(lat, i) + eps
        rm == IF dp.isArray \/ lat.isArray
              THEN NdArray(Array([i \in 1 .. BroadcastLen(dp, lat) |-> Exp(ln(i))]))
              ELSE Scalar(Exp(ln(1)))
    IN IF dp.isArray /\ lat.isArray /\ Len(dp.v) # Len(lat.v)
       THEN [exc |-> "AssertionError", ret |-> None,
             coeffs |-> coeffsArg, defaults |-> defaults]
       ELSE [exc |-> "ok", ret |-> Some(rm),
             coeffs |-> coeffsArg, defaults |-> defaults]

\* what sm.OLS(y, X).fit() and stats.norm.fit end with for n observations and
\* the four columns [1, dp, dp^2, lat^2]: with at least as many rows as columns
\* the fit returns; with fewer the system is underdetermined and the libraries
\* either return a solution or raise an error of their own
SolverOutcomes(n) ==
    IF n >= 4 THEN {"ok"} ELSE {"ok", "ValueError: raised by the solver"}

\* fitRmax(rmw, dp, lat) with the solver ending as `solver`: the list returned
\* is results.params (the fitted a, b, c, d) with the residual scale appended
fitRmax(rmw, dp, lat, solver) ==
    LET params == <<"a", "b", "c", "d">>
    IN IF Len(dp) # Len(lat) \/ Len(rmw) # Len(dp)
       THEN [exc |-> "AssertionError", ret |-> None]
       ELSE IF solver # "ok" THEN [exc |-> solver, ret |-> None]
       ELSE [exc |-> "ok", ret |-> Some(Append(params, "sigma"))]

DpValues == 0 .. MaxDp
LatValues == -MaxDp .. 0
EpsValues == {0, 5}
DpArgs == { Scalar(v) : v \in DpValues }
             \cup { NdArray(<<MaxDp>>), NdArray(<<1, MaxDp>>) }
LatArgs == { Scalar(v) : v \in LatValues }
             \cup { NdArray(<<-1>>), NdArray(<<-MaxDp, -1>>) }

\* coefficient lists a caller supplies: 0 to 5 entries, none a default value
CoeffLists ==
    { <<>>, <<7>>, <<7, -2>>, <<7, -2, 1>>, <<-3, 2, 9>>,
      <<7, -2, 1, 4>>, <<50000, -400, 0, 0>>, <<7, -2, 1, 4, 6>> }

CoeffArgs == {None} \cup { Some(c) : c \in CoeffLists }

RmaxCall ==
    \E dp \in DpArgs, lat \in LatArgs, eps \in EpsValues, coeffsArg \in CoeffArgs :
        LET r == rmax(dp, lat, eps, coeffsArg, defaultsObj)
        IN /\ coeffsObj' = r.coeffs
           /\ defaultsObj' = r.defaults
           /\ call' = [op |-> "rmax",
                       args |-> [dp |-> dp, lat |-> lat, eps |-> eps,
                                 coeffs |-> coeffsArg],
                       outcome |-> r.exc, ret |-> r.ret, saved |-> None]
           /\ UNCHANGED kdeVars

\* observation arrays of a given length: Rmw (km), dp (hPa), latitude
RmwObs(n) == Array([i \in 1 .. n |-> 10 + 5 * i])
DpObs(n) == Array([i \in 1 .. n |-> 10 * i])
LatObs(n) == Array([i \in 1 .. n |-> -10 - i])

FitCall ==
    \E nr \in 0 .. MaxObs, nd \in 0 .. MaxObs, nl \in 0 .. MaxObs :
      \E solver \in SolverOutcomes(nd) :
        LET r == fitRmax(RmwObs(nr), DpObs(nd), LatObs(nl), solver)
        IN /\ call' = [op |-> "fitRmax",
                       args |-> [rmw |-> RmwObs(nr), dp |-> DpObs(nd),
                                 lat |-> LatObs(nl)],
                       outcome |-> r.exc, ret |-> r.ret, saved |-> None]
           /\ UNCHANGED <<coeffsObj, defaultsObj>>
           /\ UNCHANGED kdeVars

---------------------------------------------------------------------------
(* Specifications *)

\* the bandwidth arguments a caller passes: none, zero, negative, positive
BwArgs == {None, Some(-1), Some(0), Some(MaxBw)}

KDECall == \E bwArg \in BwArgs, save \in BOOLEAN : generateKDE(bwArg, save)

CdfCall == \E save \in BOOLEAN : generateCdf(save)

\* no KDEOrigin object exists
NoKDE ==
    /\ gridLimit = None /\ x = None /\ y = None /\ kdeType = None
    /\ kdeStep = None /\ lonLat = None /\ processPath = None /\ bw = None
    /\ pdf = None /\ cz = None /\ kdeOk = FALSE

\* a KDEOrigin object and its calls
Init ==
    /\ InitKDE
    /\ coeffsObj = None
    /\ defaultsObj = DefaultCoeffs
    /\ call = NoCall

Next == KDECall \/ CdfCall

Spec == Init /\ [][Next]_vars

\* the module trackSize and its calls
InitRmax ==
    /\ NoKDE
    /\ coeffsObj = None
    /\ defaultsObj = DefaultCoeffs
    /\ call = NoCall

NextRmax == RmaxCall \/ FitCall

SpecRmax == InitRmax /\ [][NextRmax]_vars

\* the contour-level selection of generateKDE as a function of pdf.max()
LevelDens == {1, 3, 100, 1000}
LevelInputs == { Rat(n, d) : n \in 1 .. MaxLevelNum, d \in LevelDens }

InitLevels ==
    /\ NoKDE
    /\ coeffsObj = None
    /\ defaultsObj = DefaultCoeffs
    /\ \E r \in LevelInputs :
         call = [op |-> "pdf.max", args |-> [pdfMax |-> r], outcome |-> "ok",
                 ret |-> None, saved |-> None]

LevelsCall ==
    /\ call.op = "pdf.max"
    /\ LET lv == ContourLevels(call.args.pdfMax)
       IN call' = [op |-> "contourLevels", args |-> call.args,
                   outcome |-> lv.exc, ret |-> Some(lv), saved |-> None]
    /\ UNCHANGED kdeVars
    /\ UNCHANGED rmaxVars

SpecLevels == InitLevels /\ [][LevelsCall]_vars

---------------------------------------------------------------------------
(* Properties *)

\* error kinds the specification names and the code has no raise for
StateError == "StateError: PDF not computed"
FitError == "FitError: fewer observations than free parameters"

AllCells(grid) == Flatten(grid)

\* C1: every generateKDE(bw) call with a bandwidth argument bw <= 0, bw = 0
\* included, fails with the invalid-bandwidth error and returns no PDF.
C1_NonPositiveBandwidthRejected ==
    (call.op = "generateKDE" /\ call.args.bw # None /\ call.args.bw[1] <= 0)
        => (call.outcome = InvalidBandwidth /\ call.ret = None)

\* C2: while no generateKDE call has succeeded, generateCdf fails with the
\* dedicated state error and produces no CDF grid; after a successful
\* generateKDE call, generateCdf succeeds.
C2_CdfRequiresPdf ==
    call.op = "generateCdf"
        => IF kdeOk THEN call.outcome = "ok"
           ELSE call.outcome = StateError /\ call.ret = None /\ cz = None

\* C3: rmax called with a list of fewer than 4 coefficients returns what it
\* returns for the same dp, lat, eps with the full default vector (without
\* failing when dp and lat are scalars or arrays of one length), and leaves the
\* caller's list and the shared default list as they were.
C3_ShortCoeffsUseDefaults ==
    (call.op = "rmax" /\ call.args.coeffs # None /\ Len(call.args.coeffs[1]) < 4)
        => LET a == call.args
               full == rmax(a.dp, a.lat, a.eps, Some(DefaultCoeffs), DefaultCoeffs)
               wellFormed == ~(a.dp.isArray /\ a.lat.isArray
                               /\ Len(a.dp.v) # Len(a.lat.v))
           IN /\ call.outcome = full.exc
              /\ call.ret = full.ret
              /\ wellFormed => call.outcome = "ok"
              /\ coeffsObj = a.coeffs
              /\ defaultsObj = DefaultCoeffs

C3_Witness ==
    /\ call.op = "rmax"
    /\ call.args.coeffs = Some(<<7, -2, 1>>)
    /\ call.args.dp = NdArray(<<1, MaxDp>>)
    /\ call.args.lat = Scalar(-1)
    /\ call.args.eps = 5
    /\ call.outcome = "ok"
    /\ call.ret = Some(NdArray(<<Exp(44726 - 406 + 3 + 1 + 5),
                                 Exp(44726 - 406 * MaxDp + 3 * MaxDp * MaxDp + 1 + 5)>>))

\* C4: fitRmax called with three equal-length sequences of fewer than 4
\* observations fails with the fit error and returns no coefficient list.
C4_FitRejectsUnderdetermined ==
    (call.op = "fitRmax"
       /\ Len(call.args.rmw) = Len(call.args.dp)
       /\ Len(call.args.dp) = Len(call.args.lat)
       /\ Len(call.args.dp) < 4)
        => (call.outcome = FitError /\ call.ret = None)

\* the grid generateKDE computes from the model's observations, coordinate
\* sequences and bandwidth: cell (i, j) is the normalised density at (x[i], y[j])
KDEGridOfState ==
    LET raw == kdeMethod(kdeType, lonLat, MPDF2DGrid2Array(x, y), bw)
        total == SumInt(raw)
    IN Array([i \in 1 .. Len(x) |-> Array([j \in 1 .. Len(y) |->
                 Rat(raw[(j - 1) * Len(x) + i], total)])])

\* C5: after every successful generateKDE call, with save set or not, the
\* model holds the grid that call computed; without save the call returns
\* (x, y, grid), with save it hands the grid to the export and returns nothing.
C5_PdfRetained ==
    (call.op = "generateKDE" /\ call.outcome = "ok")
        => /\ pdf = Some(KDEGridOfState)
           /\ IF call.args.save
              THEN /\ call.ret = None
                   /\ call.saved.grid = Some(Transpose(KDEGridOfState))
              ELSE /\ call.ret = Some(<<x, y, KDEGridOfState>>)
                   /\ call.saved.grid = None

C5_Witness ==
    /\ call.op = "generateKDE"
    /\ call.outcome = "ok"
    /\ call.args.save
    /\ call.args.bw # None
    /\ Len(x) > 1
    /\ pdf # None
    /\ cz # None
    /\ cz[1] # cdf2d(x, y, pdf[1])

\* C6: the PDF grid produced by generateKDE has only non-negative entries and
\* its entries sum to 1.
C6_PdfNormalised ==
    pdf # None
        => /\ \A k \in 1 .. Len(AllCells(pdf[1])) :
                 RatLe(Rat(0, 1), AllCells(pdf[1])[k])
           /\ RatEq(SumRat(AllCells(pdf[1])), Rat(1, 1))

\* C7: the CDF grid generateCdf produces has the shape of the stored PDF grid,
\* is non-decreasing along both axes, and its last cell equals the sum of all
\* PDF cells.
C7_CdfMonotone ==
    (call.op = "generateCdf" /\ call.outcome = "ok")
        => LET c == cz[1]
               p == pdf[1]
           IN /\ Len(c) = Len(p)
              /\ \A i \in 1 .. Len(c) : Len(c[i]) = Len(p[i])
              /\ \A i \in 1 .. Len(c) - 1 : \A j \in 1 .. Len(c[i]) :
                     RatLe(c[i][j], c[i + 1][j])
              /\ \A i \in 1 .. Len(c) : \A j \in 1 .. Len(c[i]) - 1 :
                     RatLe(c[i][j], c[i][j + 1])
              /\ RatEq(c[Len(c)][Len(c[Len(c)])], SumRat(AllCells(p)))

C9_ContourStep ==
    call.op = "contourLevels"
        => LET m == call.args.pdfMax
               r == call.ret[1]
               options == { lvls_options[k] : k \in 1 .. Len(lvls_options) }
           IN /\ call.outcome = "ok"
              /\ RatEq(RatMul(r.significand, TenTo(r.exponent)), m)
              /\ RatLe(Rat(1, 1), r.significand)
              /\ RatLt(r.significand, Rat(10, 1))
              /\ options = {Rat(1, 1), Rat(1, 2), Rat(1, 4), Rat(1, 5), Rat(1, 10)}
              /\ r.lvl_step \in options
              /\ RatGt(RatDiv(r.significand, r.lvl_step), Rat(6, 1))
              /\ \A s \in options :
                     RatGt(RatDiv(r.significand, s), Rat(6, 1)) => RatLe(s, r.lvl_step)
              /\ Len(r.lvls) >= 6
              /\ \A i \in 1 .. Len(r.lvls) :
                     /\ r.lvls[i] = RatMul(Rat(i - 1, 1),
                                           RatMul(r.lvl_step, TenTo(r.exponent)))
                     /\ RatLt(r.lvls[i], m)
              /\ m = Rat(37, 1) => r.lvl_step = Rat(1, 2)

C9_Witness ==
    /\ call.op = "contourLevels"
    /\ call.args.pdfMax = Rat(37, 1)
    /\ call.ret[1].exponent = 1
    /\ call.ret[1].significand = Rat(37, 10)
    /\ call.ret[1].lvl_step = Rat(1, 2)
    /\ Len(call.ret[1].lvls) = 8

\* C10: in every state reachable by generateKDE and generateCdf calls on a
\* model whose automatically computed bandwidth is positive, the stored
\* bandwidth is > 0.
C10_BandwidthPositive == bw > 0

====
